---- MODULE Spec2Model ----
(***************************************************************************)
(* Model of backend/main.py of m5Chat: the SQLite tables (messages, rooms, *)
(* user_sessions), the Socket.IO room membership, the uploaded files, the  *)
(* wall clock, and the Socket.IO / REST handlers and the cleanup job.      *)
(*                                                                         *)
(* Handlers are coroutines on one event loop: the code of a handler up to  *)
(* its first await that can suspend is one atomic step; what follows a     *)
(* suspending await is a continuation kept in `pending`.                   *)
(*                                                                         *)
(* Time is counted in ticks. TTL is timedelta(minutes=5) in ticks of one   *)
(* minute; Sub is the number of ticks per whole unit of the textual form   *)
(* of a datetime (the part isoformat prints without a fraction).           *)
(*                                                                         *)
(* Client strings are drawn from RoomNames and UserNames, "" (empty) and   *)
(* Missing (key absent, data.get gives None). A room name equal to a       *)
(* connection id is not among the inputs.                                  *)
(***************************************************************************)
EXTENDS Integers, Sequences, FiniteSets, TLC

VARIABLES
    now,            \* the wall clock, datetime.now(), in ticks
    messages,       \* table messages, in rowid order
    rooms,          \* table rooms: the names in rowid order, which is the
                    \* order of created_at (the column is not kept)
    user_sessions,  \* table user_sessions, in rowid order
    files,          \* files present under uploads/
    connected,      \* sids the Socket.IO server holds
    closing,        \* sids whose transport is lost, disconnect in progress
    sio_rooms,      \* Socket.IO named rooms: room name -> set of sids
    nextSid,        \* next fresh connection id
    nextId,         \* next fresh uuid (message id, upload file name)
    pending,        \* continuations of handlers suspended at an await
    emitted,        \* events emitted by the last step, in order
    last            \* the last step: handler, its arguments, its outcome

vars == <<now, messages, rooms, user_sessions, files, connected, closing,
          sio_rooms, nextSid, nextId, pending, emitted, last>>

db == <<messages, rooms, user_sessions, files>>

----------------------------------------------------------------------------
(* Bounds *)

MaxConns == 2

MaxMsgs == 2

MaxTime == 6

MaxDrift == 1

MaxPending == 1

Sub == 2

(* Program constant: timedelta(minutes=5) *)
TTL == 5

RoomNames == {"r1", "r2"}

UserNames == {"u1", "u2"}

Missing == "<none>"

Sids == 1..MaxConns

NoSid == 0

NoPath == 0

----------------------------------------------------------------------------
(* Textual datetimes *)

(* datetime.isoformat(): the fraction is printed only when it is not zero *)
Isoformat(t) ==
    IF t % Sub = 0 THEN <<t \div Sub>> ELSE <<t \div Sub, t % Sub>>

(* sqlite3's datetime adapter, isoformat(" "): same rule for the fraction *)
Adapt(t) ==
    IF t % Sub = 0 THEN <<t \div Sub>> ELSE <<t \div Sub, t % Sub>>

(* SQLite's comparison of two TEXT values: bytewise, a proper prefix first *)
TextLess(a, b) ==
    \/ a[1] < b[1]
    \/ /\ a[1] = b[1]
       /\ \/ Len(a) < Len(b)
          \/ Len(a) = 2 /\ Len(b) = 2 /\ a[2] < b[2]

TextLeq(a, b) == a = b \/ TextLess(a, b)

(* `x is None` in place of `not x` *)
IsNone(x) == x = Missing

(* `not x` for a value of data.get *)
Falsy(x) == x = Missing \/ x = ""

----------------------------------------------------------------------------
(* Database operations *)

RECURSIVE OrderBy(_)
(* ORDER BY k ASC over <<k, row>> pairs in rowid order: insertion sort, stable *)
OrderBy(pairs) ==
    IF pairs = <<>> THEN <<>>
    ELSE LET p == pairs[Len(pairs)]
             s == OrderBy(SubSeq(pairs, 1, Len(pairs) - 1))
             n == Cardinality({i \in 1..Len(s) : ~TextLess(p[1], s[i][1])})
         IN  SubSeq(s, 1, n) \o <<p>> \o SubSeq(s, n + 1, Len(s))

Reverse(s) == [i \in 1..Len(s) |-> s[Len(s) + 1 - i]]

(* The pydantic Message: the row without expires_at and file_path *)
MessageOf(row) ==
    [id |-> row.id, username |-> row.username, content |-> row.content,
     room |-> row.room, timestamp |-> row.timestamp,
     message_type |-> row.message_type]

(* create_message: the row inserted; t1 and t2 are its two clock readings *)
create_message(data, file_path, id, t1, t2) ==
    [id |-> id, username |-> data.username, content |-> data.content,
     room |-> data.room, timestamp |-> Isoformat(t1),
     expires_at |-> Adapt(t2 + TTL), message_type |-> data.message_type,
     file_path |-> file_path]

(* get_room_messages with expires_at >= ? in place of expires_at > ? *)
RoomMessagesNotBefore(msgs, room, t) ==
    LET live == SelectSeq(msgs,
                    LAMBDA m : m.room = room /\ TextLeq(Adapt(t), m.expires_at))
        sorted == OrderBy([i \in 1..Len(live) |-> <<live[i].timestamp, live[i]>>])
    IN  [i \in 1..Len(sorted) |-> MessageOf(sorted[i][2])]

(* get_room_messages at clock reading t *)
get_room_messages(msgs, room, t) ==
    LET live == SelectSeq(msgs,
                    LAMBDA m : m.room = room /\ TextLess(Adapt(t), m.expires_at))
        sorted == OrderBy([i \in 1..Len(live) |-> <<live[i].timestamp, live[i]>>])
    IN  [i \in 1..Len(sorted) |-> MessageOf(sorted[i][2])]

(* create_room: INSERT, IntegrityError on an existing name is passed over *)
create_room(rms, room_name) ==
    IF \E i \in 1..Len(rms) : rms[i] = room_name
    THEN rms
    ELSE Append(rms, room_name)

(* get_active_rooms at clock reading t: ORDER BY created_at DESC *)
get_active_rooms(rms, msgs, t) ==
    Reverse(SelectSeq(rms, LAMBDA r :
                \E i \in 1..Len(msgs) :
                    /\ msgs[i].room = r
                    /\ TextLess(Adapt(t), msgs[i].expires_at)))

HasSession(us, sid) == \E i \in 1..Len(us) : us[i].session_id = sid

SessionOf(us, sid) ==
    LET i == CHOOSE i \in 1..Len(us) : us[i].session_id = sid IN us[i]

(* user_sessions without its PRIMARY KEY: the INSERT never fails *)
InsertNeverFails(us, sid) == FALSE

(* add_user_session: session_id is the PRIMARY KEY of user_sessions *)
SessionInsertFails(us, sid) == HasSession(us, sid)

add_user_session(us, sid, username, room) ==
    Append(us, [session_id |-> sid, username |-> username, room |-> room])

(* a DELETE that matches no row *)
RemoveNothing(us, sid) == us

remove_user_session(us, sid) ==
    SelectSeq(us, LAMBDA s : s.session_id # sid)

(* SELECT DISTINCT username: one entry per name *)
DistinctUsers(us, room) ==
    LET names == {us[i].username : i \in {j \in 1..Len(us) : us[j].room = room}}
    IN  CHOOSE s \in [1..Cardinality(names) -> names] :
            {s[i] : i \in 1..Cardinality(names)} = names

get_room_active_users(us, room) ==
    LET rows == SelectSeq(us, LAMBDA s : s.room = room)
    IN  [i \in 1..Len(rows) |-> rows[i].username]

----------------------------------------------------------------------------
(* Socket.IO rooms *)

(* participants of a named room whose transport is open *)
Participants(sr, cl, room) ==
    IF room \in DOMAIN sr THEN sr[room] \ cl ELSE {}

enter_room(sr, sid, room) ==
    [sr EXCEPT ![room] = @ \cup {sid}]

(* the emit placed before sio.leave_room: the room still holds sid *)
LeaveAfterEmit(sr, sid, room) == sr

leave_room_sio(sr, sid, room) ==
    IF room \in DOMAIN sr THEN [sr EXCEPT ![room] = @ \ {sid}] ELSE sr

(* an emit that skips nobody *)
SkipNobody(to, sid) == to

(* the skip_sid argument of sio.emit: sid is left out of the recipients *)
skip_sid(to, sid) == to \ {sid}

Ev(name, to, username, room, active_users, msgs) ==
    [name |-> name, to |-> to, username |-> username, room |-> room,
     active_users |-> active_users, messages |-> msgs]

(* raised: the exception that leaves the handler, "none" when none does *)
Step(op, sid, room, username, raised, result) ==
    [op |-> op, sid |-> sid, room |-> room, username |-> username,
     raised |-> raised, result |-> result]

Task(kind, sid, username, room, active_users) ==
    [kind |-> kind, sid |-> sid, username |-> username, room |-> room,
     active_users |-> active_users]

CanSuspend == Cardinality(pending) < MaxPending

Live == connected \ closing

----------------------------------------------------------------------------
Init ==
    /\ now = 0
    /\ messages = <<>>
    /\ rooms = <<>>
    /\ user_sessions = <<>>
    /\ files = {}
    /\ connected = {}
    /\ closing = {}
    /\ sio_rooms = [r \in RoomNames |-> {}]
    /\ nextSid = 1
    /\ nextId = 1
    /\ pending = {}
    /\ emitted = <<>>
    /\ last = Step("init", NoSid, "", "", "none", <<>>)

(* the wall clock advances *)
Tick ==
    /\ now < MaxTime
    /\ now' = now + 1
    /\ emitted' = <<>>
    /\ last' = Step("tick", NoSid, "", "", "none", <<>>)
    /\ UNCHANGED <<db, connected, closing, sio_rooms, nextSid, nextId, pending>>

(* connect: a new transport, a fresh sid *)
connect ==
    /\ nextSid <= MaxConns
    /\ connected' = connected \cup {nextSid}
    /\ nextSid' = nextSid + 1
    /\ emitted' = <<Ev("connected", {nextSid}, "", "", <<>>, <<>>)>>
    /\ last' = Step("connect", nextSid, "", "", "none", <<>>)
    /\ UNCHANGED <<now, db, closing, sio_rooms, nextId, pending>>

(* join_room, up to the await of the room_history emit *)
join_room(sid, room, username) ==
    /\ sid \in Live
    /\ IF Falsy(room) \/ Falsy(username)
       THEN /\ emitted' = <<Ev("error", {sid}, "", "", <<>>, <<>>)>>
            /\ last' = Step("join_room", sid, room, username, "none", <<>>)
            /\ UNCHANGED <<now, db, connected, closing, sio_rooms, nextSid,
                           nextId, pending>>
       ELSE /\ rooms' = create_room(rooms, room)
            /\ IF SessionInsertFails(user_sessions, sid)
               THEN \* sqlite3.IntegrityError leaves the handler
                    /\ emitted' = <<>>
                    /\ last' = Step("join_room", sid, room, username,
                                    "IntegrityError", <<>>)
                    /\ UNCHANGED <<user_sessions, sio_rooms, pending>>
               ELSE /\ CanSuspend
                    /\ user_sessions' =
                           add_user_session(user_sessions, sid, username, room)
                    /\ sio_rooms' = enter_room(sio_rooms, sid, room)
                    /\ LET active_users ==
                               get_room_active_users(user_sessions', room)
                       IN  /\ emitted' =
                                 <<Ev("room_history", {sid}, "", room, active_users,
                                      get_room_messages(messages, room, now))>>
                           /\ pending' = pending \cup
                                 {Task("join_room", sid, username, room,
                                       active_users)}
                    /\ last' = Step("join_room", sid, room, username, "none", <<>>)
            /\ UNCHANGED <<now, messages, files, connected, closing, nextSid,
                           nextId>>

(* join_room, after the await: the user_joined emit, skip_sid=sid *)
join_room_resume(task) ==
    /\ task \in pending
    /\ task.kind = "join_room"
    /\ emitted' = <<Ev("user_joined",
                       skip_sid(Participants(sio_rooms, closing, task.room),
                                task.sid),
                       task.username, task.room, task.active_users, <<>>)>>
    /\ pending' = pending \ {task}
    /\ last' = Step("join_room_resume", task.sid, task.room, task.username,
                    "none", <<>>)
    /\ UNCHANGED <<now, db, connected, closing, sio_rooms, nextSid, nextId>>

(* leave_room *)
leave_room(sid, room, username) ==
    /\ sid \in Live
    /\ IF Falsy(room)
       THEN /\ emitted' = <<>>
            /\ UNCHANGED <<user_sessions, sio_rooms>>
       ELSE /\ sio_rooms' = leave_room_sio(sio_rooms, sid, room)
            /\ user_sessions' = remove_user_session(user_sessions, sid)
            /\ emitted' =
                  IF Falsy(username) THEN <<>>
                  ELSE <<Ev("user_left", Participants(sio_rooms', closing, room),
                            username, room,
                            get_room_active_users(user_sessions', room), <<>>)>>
    /\ last' = Step("leave_room", sid, room, username, "none", <<>>)
    /\ UNCHANGED <<now, messages, rooms, files, connected, closing, nextSid,
                   nextId, pending>>

(* disconnect: the handler, run when the transport of sid is lost *)
disconnect(sid) ==
    /\ sid \in Live
    /\ CanSuspend
    /\ closing' = closing \cup {sid}
    /\ IF HasSession(user_sessions, sid)
       THEN LET session == SessionOf(user_sessions, sid)
            IN  /\ user_sessions' = remove_user_session(user_sessions, sid)
                /\ emitted' =
                      <<Ev("user_left",
                           Participants(sio_rooms, closing', session.room),
                           session.username, session.room,
                           get_room_active_users(user_sessions', session.room),
                           <<>>)>>
       ELSE /\ emitted' = <<>>
            /\ UNCHANGED user_sessions
    /\ pending' = pending \cup {Task("disconnect", sid, "", "", <<>>)}
    /\ last' = Step("disconnect", sid, "", "", "none", <<>>)
    /\ UNCHANGED <<now, messages, rooms, files, connected, sio_rooms, nextSid,
                   nextId>>

(* after the disconnect handler the server drops sid from every room *)
disconnect_resume(task) ==
    /\ task \in pending
    /\ task.kind = "disconnect"
    /\ connected' = connected \ {task.sid}
    /\ closing' = closing \ {task.sid}
    /\ sio_rooms' = [r \in DOMAIN sio_rooms |-> sio_rooms[r] \ {task.sid}]
    /\ pending' = pending \ {task}
    /\ emitted' = <<>>
    /\ last' = Step("disconnect_resume", task.sid, "", "", "none", <<>>)
    /\ UNCHANGED <<now, db, nextSid, nextId>>

(* the MessageCreate model: username, content and room are required strings *)
ValidMessageCreate(data) ==
    data.username # Missing /\ data.content # Missing /\ data.room # Missing

Payload(username, content, room, message_type) ==
    [username |-> username, content |-> content, room |-> room,
     message_type |-> message_type]

(* inputs of send_message: a well-formed payload for each room value, and   *)
(* payloads with one field empty or absent                                *)
SendPayloads ==
    {Payload("u1", "hi", r, "text") : r \in RoomNames \cup {"", Missing}}
    \cup {Payload(u, "hi", "r1", "text") : u \in {"", Missing}}
    \cup {Payload("u1", Missing, "r1", "text")}

(* send_message *)
send_message(sid, data) ==
    /\ sid \in Live
    /\ IF ValidMessageCreate(data)
       THEN \E d \in 0..MaxDrift :
               /\ nextId <= MaxMsgs
               /\ now + d <= MaxTime
               /\ LET row == create_message(data, NoPath, nextId, now, now + d)
                  IN  /\ messages' = Append(messages, row)
                      /\ emitted' =
                            <<Ev("new_message",
                                 Participants(sio_rooms, closing, data.room),
                                 "", data.room, <<>>, <<MessageOf(row)>>)>>
               /\ now' = now + d
               /\ nextId' = nextId + 1
               /\ last' = Step("send_message", sid, data.room, data.username,
                               "none", data)
       ELSE \* the ValidationError is caught by the handler
            /\ emitted' = <<Ev("error", {sid}, "", "", <<>>, <<>>)>>
            /\ last' = Step("send_message", sid, data.room, data.username,
                            "none", data)
            /\ UNCHANGED <<now, messages, nextId>>
    /\ UNCHANGED <<rooms, user_sessions, files, connected, closing, sio_rooms,
                   nextSid, pending>>

(* upload_image, upload_voice: the file is saved, then the message created *)
upload(kind, username, room) ==
    \E d \in 0..MaxDrift :
        /\ nextId <= MaxMsgs
        /\ now + d <= MaxTime
        /\ files' = files \cup {nextId}
        /\ LET row == create_message(Payload(username, "file", room, kind),
                                     nextId, nextId, now, now + d)
           IN  /\ messages' = Append(messages, row)
               /\ emitted' =
                     <<Ev("new_message", Participants(sio_rooms, closing, room),
                          "", room, <<>>, <<MessageOf(row)>>)>>
        /\ now' = now + d
        /\ nextId' = nextId + 1
        /\ last' = Step("upload", NoSid, room, username, "none", <<>>)
        /\ UNCHANGED <<rooms, user_sessions, connected, closing, sio_rooms,
                       nextSid, pending>>

(* a SELECT of the file paths without the condition on expires_at *)
AllFiles(msgs, t) ==
    LET rows == SelectSeq(msgs, LAMBDA m : m.file_path # NoPath)
    IN  [i \in 1..Len(rows) |-> rows[i].file_path]

(* cleanup_expired_messages: the SELECT of the file paths at reading t *)
expired_files(msgs, t) ==
    LET rows == SelectSeq(msgs, LAMBDA m :
                    TextLeq(m.expires_at, Adapt(t)) /\ m.file_path # NoPath)
    IN  [i \in 1..Len(rows) |-> rows[i].file_path]

(* a DELETE that matches no row *)
DeleteNothing(msgs, t) == msgs

(* cleanup_expired_messages: the DELETE at reading t, the rows that stay *)
delete_expired(msgs, t) ==
    SelectSeq(msgs, LAMBDA m : ~TextLeq(m.expires_at, Adapt(t)))

Range(s) == {s[i] : i \in 1..Len(s)}

(* cleanup_expired_messages: the scheduled job; it has no await.          *)
(* failing: the paths whose os.remove raises.                             *)
(* one try around the whole loop: the first failure ends the deletions *)
RemoveUntilFailure(fs, paths, failing) ==
    LET bad == {i \in 1..Len(paths) : paths[i] \in failing}
    IN  fs \ {paths[i] : i \in {j \in 1..Len(paths) :
                                    \A b \in bad : j < b}}

(* cleanup_expired_messages: the loop over expired_files, a try around   *)
(* each os.remove; the files whose removal fails stay                    *)
remove_files(fs, paths, failing) == fs \ (Range(paths) \ failing)

cleanup_expired_messages ==
    \E d \in 0..MaxDrift :
        /\ now + d <= MaxTime
        /\ LET paths == expired_files(messages, now)
               present == Range(paths) \cap files
           IN  \E failing \in SUBSET present :
                  /\ messages' = delete_expired(messages, now + d)
                  /\ files' = remove_files(files, paths, failing)
                  /\ last' = Step("cleanup", NoSid, "", "", "none",
                                  [expired_files |-> paths, failing |-> failing,
                                   t1 |-> now, t2 |-> now + d])
        /\ now' = now + d
        /\ emitted' = <<>>
        /\ UNCHANGED <<rooms, user_sessions, connected, closing, sio_rooms,
                       nextSid, nextId, pending>>

(* GET /rooms *)
get_rooms ==
    /\ last' = Step("get_rooms", NoSid, "", "", "none",
                    get_active_rooms(rooms, messages, now))
    /\ emitted' = <<>>
    /\ UNCHANGED <<now, db, connected, closing, sio_rooms, nextSid, nextId,
                   pending>>

(* GET /rooms/{room_name}/messages *)
get_messages(room_name) ==
    /\ last' = Step("get_messages", NoSid, room_name, "", "none",
                    get_room_messages(messages, room_name, now))
    /\ emitted' = <<>>
    /\ UNCHANGED <<now, db, connected, closing, sio_rooms, nextSid, nextId,
                   pending>>

(* POST /rooms *)
create_room_endpoint(room_name) ==
    /\ rooms' = create_room(rooms, room_name)
    /\ last' = Step("create_room", NoSid, room_name, "", "none", <<>>)
    /\ emitted' = <<>>
    /\ UNCHANGED <<now, messages, user_sessions, files, connected, closing,
                   sio_rooms, nextSid, nextId, pending>>

(* the process stops and starts again: lifespan, init_db on the same chat.db *)
restart ==
    /\ connected' = {}
    /\ closing' = {}
    /\ sio_rooms' = [r \in RoomNames |-> {}]
    /\ pending' = {}
    /\ emitted' = <<>>
    /\ last' = Step("restart", NoSid, "", "", "none", <<>>)
    /\ UNCHANGED <<now, db, nextSid, nextId>>

(* inputs of join_room and leave_room: <<room, username>>, every pair of   *)
(* names, and pairs with one field empty or absent                        *)
RoomEvents ==
    (RoomNames \X UserNames)
    \cup {<<"", "u1">>, <<Missing, "u1">>, <<"r1", "">>, <<"r1", Missing>>}

Next ==
    \/ Tick
    \/ connect
    \/ \E sid \in Sids, data \in RoomEvents : join_room(sid, data[1], data[2])
    \/ \E task \in pending : join_room_resume(task)
    \/ \E sid \in Sids, data \in RoomEvents : leave_room(sid, data[1], data[2])
    \/ \E sid \in Sids : disconnect(sid)
    \/ \E task \in pending : disconnect_resume(task)
    \/ \E sid \in Sids, data \in SendPayloads : send_message(sid, data)
    \/ \E kind \in {"image", "voice"}, room \in RoomNames :
            upload(kind, "u1", room)
    \/ cleanup_expired_messages
    \/ get_rooms
    \/ \E room_name \in RoomNames : get_messages(room_name)
    \/ \E room_name \in RoomNames : create_room_endpoint(room_name)
    \/ restart

Spec == Init /\ [][Next]_vars

(* The connection events alone: any client connects, joins, leaves and    *)
(* disconnects, and the process restarts; no message is created.          *)
NextPresence ==
    \/ connect
    \/ \E sid \in Sids, data \in RoomEvents : join_room(sid, data[1], data[2])
    \/ \E task \in pending : join_room_resume(task)
    \/ \E sid \in Sids, data \in RoomEvents : leave_room(sid, data[1], data[2])
    \/ \E sid \in Sids : disconnect(sid)
    \/ \E task \in pending : disconnect_resume(task)
    \/ restart

SpecPresence == Init /\ [][NextPresence]_vars

(* The message store under a passing clock: one client, u1, joins and     *)
(* sends; images are uploaded; the cleanup job and the REST queries run.  *)
NextStore ==
    \/ Tick
    \/ nextSid = 1 /\ connect
    \/ \E room \in RoomNames : join_room(1, room, "u1")
    \/ \E task \in pending : join_room_resume(task)
    \/ \E room \in RoomNames :
            send_message(1, Payload("u1", "hi", room, "text"))
    \/ \E room \in RoomNames : upload("image", "u1", room)
    \/ cleanup_expired_messages
    \/ get_rooms
    \/ \E room_name \in RoomNames : get_messages(room_name)
    \/ \E room_name \in RoomNames : create_room_endpoint(room_name)

SpecStore == Init /\ [][NextStore]_vars

(* Sending among the members of the rooms: any client connects, joins     *)
(* and leaves as u1, disconnects, and sends any payload; the clock moves  *)
(* only inside create_message.                                            *)
NextSend ==
    \/ connect
    \/ \E sid \in Sids, room \in RoomNames : join_room(sid, room, "u1")
    \/ \E task \in pending : join_room_resume(task)
    \/ \E sid \in Sids, room \in RoomNames : leave_room(sid, room, "u1")
    \/ \E sid \in Sids : disconnect(sid)
    \/ \E task \in pending : disconnect_resume(task)
    \/ \E sid \in Sids, data \in SendPayloads : send_message(sid, data)

SpecSend == Init /\ [][NextSend]_vars

(* the clock's bound leaves room for the expiry of a message created now *)
CanExpire == now + MaxDrift + TTL <= MaxTime

(* The life of a message: it is sent or uploaded, the clock advances and  *)
(* the scheduler runs the cleanup job at every interval.                  *)
NextSweep ==
    \/ Tick
    \/ nextSid = 1 /\ connect
    \/ \E room \in RoomNames :
            CanExpire /\ send_message(1, Payload("u1", "hi", room, "text"))
    \/ \E room \in RoomNames : CanExpire /\ upload("image", "u1", room)
    \/ cleanup_expired_messages

(* the interval trigger fires the job again and again; time passes *)
SpecSweep ==
    /\ Init
    /\ [][NextSweep]_vars
    /\ WF_vars(Tick)
    /\ WF_vars(cleanup_expired_messages)

----------------------------------------------------------------------------
(* Properties *)

(* the rows of user_sessions whose key is sid *)
SessionRows(us, sid) == {i \in 1..Len(us) : us[i].session_id = sid}

MissingOrEmpty(x) == x \in {"", Missing}

(* datetime.fromisoformat of a stored text, in ticks *)
Ticks(text) == text[1] * Sub + (IF Len(text) = 2 THEN text[2] ELSE 0)

Events(name) == {i \in 1..Len(emitted) : emitted[i].name = name}

(* C1: a join with both fields non-empty by a connection that already has *)
(* a session is not rejected: afterwards the connection has exactly one   *)
(* session, bound to the new (username, room), it has received            *)
(* room_history for the new room, and no error is raised or emitted.      *)
C1_JoinSupersedesPriorSession ==
    [][(/\ last'.op = "join_room"
        /\ ~MissingOrEmpty(last'.room)
        /\ ~MissingOrEmpty(last'.username)
        /\ SessionRows(user_sessions, last'.sid) # {})
       => /\ last'.raised = "none"
          /\ Cardinality(SessionRows(user_sessions', last'.sid)) = 1
          /\ \A i \in SessionRows(user_sessions', last'.sid) :
                /\ user_sessions'[i].username = last'.username
                /\ user_sessions'[i].room = last'.room
          /\ \E i \in 1..Len(emitted') :
                /\ emitted'[i].name = "room_history"
                /\ emitted'[i].room = last'.room
                /\ last'.sid \in emitted'[i].to
          /\ \A i \in 1..Len(emitted') : emitted'[i].name # "error"]_vars

(* C2: whenever no handler is mid-execution, a live connection is in the  *)
(* broadcast set of room R exactly when it has a session whose room is R. *)
C2_MembershipMatchesSessions ==
    pending = {} =>
        \A c \in Live, R \in RoomNames :
            c \in sio_rooms[R] <=>
                \E i \in SessionRows(user_sessions, c) : user_sessions[i].room = R

(* C3: a connection id never has more than one session; a session of a   *)
(* connection appears only by a join_room of that connection; the         *)
(* connection has none once its leave_room with a non-empty room, or its  *)
(* disconnect, has run.                                                   *)
C3_AtMostOneSession ==
    /\ [](\A sid \in Sids : Cardinality(SessionRows(user_sessions, sid)) <= 1)
    /\ [](\A sid \in Sids : sid >= nextSid => SessionRows(user_sessions, sid) = {})
    /\ []((/\ last.op \in {"leave_room", "disconnect"}
           /\ last.op = "leave_room" => ~MissingOrEmpty(last.room))
          => SessionRows(user_sessions, last.sid) = {})
    /\ [][\A sid \in Sids :
            (SessionRows(user_sessions, sid) = {}
             /\ SessionRows(user_sessions', sid) # {})
            => (last'.op = "join_room" /\ last'.sid = sid)]_vars

(* C3 witness: the disconnect of a connection that had a session has run  *)
(* while another connection holds a session                               *)
C3_Witness ==
    /\ last.op = "disconnect"
    /\ Events("user_left") # {}
    /\ SessionRows(user_sessions, last.sid) = {}
    /\ user_sessions # <<>>

(* C8 as stated: the user_left of a leave(R, username) by a connection in *)
(* room R reaches every remaining member of R and the leaver itself.      *)
C8_LeaverReceivesUserLeft ==
    [][(/\ last'.op = "leave_room"
        /\ ~MissingOrEmpty(last'.room)
        /\ ~MissingOrEmpty(last'.username)
        /\ \E i \in SessionRows(user_sessions, last'.sid) :
              user_sessions[i].room = last'.room)
       => \E e \in 1..Len(emitted') :
             /\ emitted'[e].name = "user_left"
             /\ last'.sid \in emitted'[e].to
             /\ \A d \in Live' \ {last'.sid} :
                   (\E i \in SessionRows(user_sessions', d) :
                        user_sessions'[i].room = last'.room)
                   => d \in emitted'[e].to]_vars

(* C8 amended: the user_left of a leave(R, username), username non-empty, *)
(* by a connection in room R is the one event of the handler; it reaches  *)
(* every other open connection of R's broadcast set, so every remaining   *)
(* member of R, and it does not reach the leaver.                         *)
C8_UserLeftToRemainingMembers ==
    [][(/\ last'.op = "leave_room"
        /\ ~MissingOrEmpty(last'.room)
        /\ ~MissingOrEmpty(last'.username)
        /\ \E i \in SessionRows(user_sessions, last'.sid) :
              user_sessions[i].room = last'.room)
       => /\ Len(emitted') = 1
          /\ emitted'[1].name = "user_left"
          /\ emitted'[1].room = last'.room
          /\ emitted'[1].username = last'.username
          /\ emitted'[1].to = (sio_rooms[last'.room] \ closing) \ {last'.sid}
          /\ last'.sid \notin emitted'[1].to
          /\ \A d \in Live' \ {last'.sid} :
                (\E i \in SessionRows(user_sessions', d) :
                     user_sessions'[i].room = last'.room)
                => d \in emitted'[1].to]_vars

(* C8 witness: a leave whose user_left reached a remaining member that    *)
(* holds a session in the room                                            *)
C8_Witness ==
    /\ last.op = "leave_room"
    /\ Len(emitted) = 1
    /\ emitted[1].name = "user_left"
    /\ last.sid \notin emitted[1].to
    /\ \E d \in emitted[1].to :
          \E i \in SessionRows(user_sessions, d) :
              user_sessions[i].room = last.room

(* the usernames of the sessions of room R held by connections other than c *)
OtherOccupants(us, c, R) ==
    LET rows == SelectSeq(us, LAMBDA s : s.room = R /\ s.session_id # c)
    IN  [i \in 1..Len(rows) |-> rows[i].username]

(* C9: disconnect of c emits user_left iff c had a session: with session  *)
(* (u, R), exactly one user_left{u, R} to R whose active_users lists the  *)
(* other occupants of R; with none, no event, no error, no store changed. *)
(* Either way c has no session afterwards.                                *)
C9_DisconnectEmitsIffSession ==
    [][last'.op = "disconnect" =>
        /\ SessionRows(user_sessions', last'.sid) = {}
        /\ last'.raised = "none"
        /\ \A i \in SessionRows(user_sessions, last'.sid) :
              /\ Len(emitted') = 1
              /\ emitted'[1].name = "user_left"
              /\ emitted'[1].username = user_sessions[i].username
              /\ emitted'[1].room = user_sessions[i].room
              /\ emitted'[1].to = sio_rooms[user_sessions[i].room] \ closing'
              /\ emitted'[1].active_users =
                    OtherOccupants(user_sessions, last'.sid,
                                   user_sessions[i].room)
        /\ SessionRows(user_sessions, last'.sid) = {} =>
              /\ emitted' = <<>>
              /\ UNCHANGED <<db, sio_rooms>>]_vars

(* C9 witness: a disconnect whose user_left reached another connection    *)
(* and lists a remaining occupant                                         *)
C9_Witness ==
    /\ last.op = "disconnect"
    /\ Len(emitted) = 1
    /\ emitted[1].name = "user_left"
    /\ emitted[1].to # {}
    /\ emitted[1].active_users # <<>>

(* C10: a join_room whose room or username is missing or empty emits one  *)
(* error event, to the issuing connection only, and changes no state.     *)
C10_InvalidJoinOnlyErrors ==
    [][(/\ last'.op = "join_room"
        /\ MissingOrEmpty(last'.room) \/ MissingOrEmpty(last'.username))
       => /\ Len(emitted') = 1
          /\ emitted'[1].name = "error"
          /\ emitted'[1].to = {last'.sid}
          /\ UNCHANGED <<now, db, connected, closing, sio_rooms, nextSid,
                         nextId, pending>>]_vars

(* C10 witness: a join with an empty room was answered by an error while  *)
(* another connection holds a session                                     *)
C10_Witness ==
    /\ last.op = "join_room"
    /\ last.room = ""
    /\ Len(emitted) = 1
    /\ emitted[1].name = "error"
    /\ user_sessions # <<>>

(* C4 as stated: every sweep that removes a message carrying a file path  *)
(* also obtains that path and, unless its removal fails, deletes the      *)
(* file, even if the clock advances between its SELECT and its DELETE.    *)
C4_SweepDeletesFilesOfRemovedRows ==
    [][last'.op = "cleanup" =>
        \A i \in 1..Len(messages) :
            (/\ messages[i].file_path # NoPath
             /\ \A j \in 1..Len(messages') : messages'[j].id # messages[i].id)
            => /\ messages[i].file_path \in Range(last'.result.expired_files)
               /\ messages[i].file_path \notin last'.result.failing
                     => messages[i].file_path \notin files']_vars

(* C5 as stated: the expiry of every stored message is its creation       *)
(* timestamp plus TTL exactly.                                            *)
C5_ExpiryIsCreationPlusTTL ==
    \A i \in 1..Len(messages) :
        Ticks(messages[i].expires_at) = Ticks(messages[i].timestamp) + TTL

(* res is the live list of room R at time t: the stored messages of R     *)
(* with t < expiry, each once, by creation time ascending                 *)
IsLiveList(res, R, t) ==
    /\ \A i \in 1..Len(messages) :
          (messages[i].room = R /\ t < Ticks(messages[i].expires_at))
          <=> \E j \in 1..Len(res) : res[j] = MessageOf(messages[i])
    /\ \A j \in 1..Len(res) :
          \E i \in 1..Len(messages) : res[j] = MessageOf(messages[i])
    /\ \A j, k \in 1..Len(res) : j # k => res[j].id # res[k].id
    /\ \A j, k \in 1..Len(res) :
          j < k => Ticks(res[j].timestamp) <= Ticks(res[k].timestamp)

(* C6: the messages of every room_history and of every room-messages      *)
(* query, and of the query at any moment, are the live list of the room   *)
(* at the time read: an expired message not yet swept is not returned.    *)
C6_LiveListExact ==
    /\ \A R \in RoomNames :
          IsLiveList(get_room_messages(messages, R, now), R, now)
    /\ \A e \in Events("room_history") :
          IsLiveList(emitted[e].messages, emitted[e].room, now)
    /\ last.op = "get_messages" => IsLiveList(last.result, last.room, now)

(* C6 witness: a room_history that returns a live message of a room that  *)
(* also holds an expired message not yet swept                            *)
C6_Witness ==
    \E e \in Events("room_history") :
        /\ emitted[e].messages # <<>>
        /\ \E i \in 1..Len(messages) :
              /\ messages[i].room = emitted[e].room
              /\ Ticks(messages[i].expires_at) <= now

(* C7 as stated: a room name is among the active rooms at time t exactly  *)
(* when a stored message of that room has expiry > t.                     *)
C7_ActiveIffLiveMessage ==
    \A R \in RoomNames :
        R \in Range(get_active_rooms(rooms, messages, now))
        <=> \E i \in 1..Len(messages) :
                messages[i].room = R /\ Ticks(messages[i].expires_at) > now

(* C11: the user_joined of a join is emitted only by the continuation of  *)
(* a join_room whose room_history to the joiner was emitted by an earlier *)
(* step; it reaches every open connection of the room's broadcast set     *)
(* other than the joiner, so every other member of the room, and never    *)
(* the joiner itself.                                                     *)
C11_HistoryBeforeUserJoined ==
    /\ [][\A task \in pending' \ pending :
            task.kind = "join_room" =>
                /\ last'.op = "join_room"
                /\ last'.sid = task.sid
                /\ Len(emitted') = 1
                /\ emitted'[1].name = "room_history"
                /\ emitted'[1].room = task.room
                /\ emitted'[1].to = {task.sid}]_vars
    /\ [][Events("user_joined")' # {} =>
            /\ last'.op = "join_room_resume"
            /\ Len(emitted') = 1
            /\ \E task \in pending \ pending' :
                  /\ task.kind = "join_room"
                  /\ task.sid = last'.sid
                  /\ task.room = last'.room
                  /\ emitted'[1].room = task.room
                  /\ emitted'[1].username = task.username
            /\ emitted'[1].to =
                  (sio_rooms[last'.room] \ closing) \ {last'.sid}
            /\ last'.sid \notin emitted'[1].to
            /\ \A d \in Live \ {last'.sid} :
                  (\E i \in SessionRows(user_sessions, d) :
                       user_sessions[i].room = last'.room)
                  => d \in emitted'[1].to]_vars

(* C11 witness: the user_joined of a joiner still in the room reached     *)
(* another member of the room                                             *)
C11_Witness ==
    /\ last.op = "join_room_resume"
    /\ Len(emitted) = 1
    /\ emitted[1].name = "user_joined"
    /\ last.sid \in sio_rooms[last.room]
    /\ \E d \in emitted[1].to :
          \E i \in SessionRows(user_sessions, d) :
              user_sessions[i].room = last.room

(* list holds one entry per session of room R in us, and nothing else:    *)
(* each username as many times as sessions of R carry it                  *)
IsOccupantList(list, us, R) ==
    /\ Len(list) = Cardinality({i \in 1..Len(us) : us[i].room = R})
    /\ \A u \in UserNames :
          Cardinality({j \in 1..Len(list) : list[j] = u})
          = Cardinality({i \in 1..Len(us) : us[i].room = R
                                             /\ us[i].username = u})

(* C12: the active_users of every room_history and user_left is the list  *)
(* of the usernames of the sessions bound to the event's room when the    *)
(* handler read them, one entry per session, duplicates kept; that of a   *)
(* user_joined is the list its join_room read before its room_history.    *)
(* The list of a join holds the joiner's entry; the list of a leave or a  *)
(* disconnect is that of the sessions of the other connections.           *)
C12_ActiveUsersAreRoomSessions ==
    /\ [][\A e \in 1..Len(emitted') :
            emitted'[e].name \in {"room_history", "user_left"} =>
                IsOccupantList(emitted'[e].active_users, user_sessions',
                               emitted'[e].room)]_vars
    /\ [][\A task \in pending' \ pending :
            task.kind = "join_room" =>
                /\ IsOccupantList(task.active_users, user_sessions', task.room)
                /\ emitted'[1].active_users = task.active_users
                /\ \E i \in SessionRows(user_sessions', task.sid) :
                      /\ user_sessions'[i].room = task.room
                      /\ user_sessions'[i].username = task.username
                /\ \E j \in 1..Len(task.active_users) :
                      task.active_users[j] = task.username]_vars
    /\ [][\A e \in Events("user_joined")' :
            \E task \in pending \ pending' :
                emitted'[e].active_users = task.active_users]_vars
    /\ [][\A e \in Events("user_left")' :
            /\ SessionRows(user_sessions', last'.sid) = {}
            /\ emitted'[e].active_users =
                  OtherOccupants(user_sessions, last'.sid, emitted'[e].room)]_vars

(* C12 witness: a user_joined whose list names the same username twice,   *)
(* once for each of two connections of the room                           *)
C12_Witness ==
    /\ last.op = "join_room_resume"
    /\ Len(emitted) = 1
    /\ emitted[1].name = "user_joined"
    /\ Len(emitted[1].active_users) = 2
    /\ emitted[1].active_users[1] = emitted[1].active_users[2]
    /\ \A c \in Sids : \E i \in SessionRows(user_sessions, c) :
          user_sessions[i].room = last.room

(* C13 as stated: a send_message whose payload passes validation appends  *)
(* exactly one message and emits one new_message carrying it, with its    *)
(* id, to the whole broadcast set of the target room, and the sender is   *)
(* among the recipients.                                                  *)
C13_SenderReceivesEcho ==
    [][(last'.op = "send_message" /\ ValidMessageCreate(last'.result))
       => /\ Len(messages') = Len(messages) + 1
          /\ SubSeq(messages', 1, Len(messages)) = messages
          /\ Len(emitted') = 1
          /\ emitted'[1].name = "new_message"
          /\ emitted'[1].messages = <<MessageOf(messages'[Len(messages')])>>
          /\ emitted'[1].to = Participants(sio_rooms, closing, last'.room)
          /\ last'.sid \in emitted'[1].to]_vars

(* C14 as stated: a send_message whose payload lacks a required field, or *)
(* whose room or username is empty, emits one error, to the issuing       *)
(* connection only, emits nothing to a room and appends no message.       *)
C14_InvalidSendOnlyErrors ==
    [][(/\ last'.op = "send_message"
        /\ \/ ~ValidMessageCreate(last'.result)
           \/ MissingOrEmpty(last'.result.room)
           \/ MissingOrEmpty(last'.result.username))
       => /\ Len(emitted') = 1
          /\ emitted'[1].name = "error"
          /\ emitted'[1].to = {last'.sid}
          /\ messages' = messages]_vars

(* the ids of the stored messages *)
StoredIds(msgs) == {msgs[i].id : i \in 1..Len(msgs)}

(* C15: with the cleanup job recurring and the clock advancing, every     *)
(* stored message is eventually gone from the store, and while a message  *)
(* is stored its row does not change.                                     *)
C15_EveryMessageEventuallyRemoved ==
    /\ \A id \in 1..MaxMsgs :
          (id \in StoredIds(messages)) ~> (id \notin StoredIds(messages))
    /\ [][\A i \in 1..Len(messages) : \A j \in 1..Len(messages') :
            messages'[j].id = messages[i].id => messages'[j] = messages[i]]_vars

(* C15 witness: a sweep has emptied the store of every message ever       *)
(* created, among them one with a file                                    *)
C15_Witness ==
    /\ last.op = "cleanup"
    /\ last.result.expired_files # <<>>
    /\ nextId = MaxMsgs + 1
    /\ messages = <<>>

(* C16: a sweep in which the removal of a file fails still ends without   *)
(* an exception: no expired row is left in the store, and every other     *)
(* file path the sweep obtained is gone from the disk.                    *)
C16_SweepSurvivesFileFailure ==
    [][(last'.op = "cleanup" /\ last'.result.failing # {})
       => /\ last'.raised = "none"
          /\ \A j \in 1..Len(messages') :
                Ticks(messages'[j].expires_at) > last'.result.t2
          /\ \A i \in 1..Len(messages) :
                Ticks(messages[i].expires_at) <= last'.result.t2
                => messages[i].id \notin StoredIds(messages')
          /\ \A p \in Range(last'.result.expired_files) :
                p \notin last'.result.failing => p \notin files'
          /\ last'.result.failing \subseteq files']_vars

(* C16 witness: a sweep obtained two paths, failed to remove the first    *)
(* file and removed the second                                            *)
C16_Witness ==
    /\ last.op = "cleanup"
    /\ Len(last.result.expired_files) = 2
    /\ last.result.expired_files[1] \in last.result.failing
    /\ last.result.expired_files[2] \notin files
    /\ messages = <<>>

(* C17: after a sweep no row whose expiry is at or before either time the *)
(* sweep read is stored; every row whose expiry is after the time read by *)
(* the DELETE is still stored, unchanged and in place; and no file of a   *)
(* row still stored was removed.                                          *)
C17_SweepRemovesExactlyExpired ==
    [][last'.op = "cleanup" =>
        /\ \A j \in 1..Len(messages') :
              /\ Ticks(messages'[j].expires_at) > last'.result.t1
              /\ Ticks(messages'[j].expires_at) > last'.result.t2
              /\ Ticks(messages'[j].expires_at) > now'
        /\ messages' = SelectSeq(messages, LAMBDA row :
                            Ticks(row.expires_at) > last'.result.t2)
        /\ \A j \in 1..Len(messages') :
              messages'[j].file_path \in files
              => messages'[j].file_path \in files']_vars

(* C17 witness: a sweep removed an expired row and its file and kept a    *)
(* live row and its file                                                  *)
C17_Witness ==
    /\ last.op = "cleanup"
    /\ last.result.expired_files # <<>>
    /\ last.result.failing = {}
    /\ Len(messages) = 1
    /\ messages[1].file_path \in files
    /\ Cardinality(files) = 1

(* C18 as stated: whenever a leave_room with a non-empty room, whatever   *)
(* its username, or a disconnect removes the session (u, R) of its        *)
(* connection, the same handler emits a user_left for room R.             *)
C18_EveryClosingAnnounced ==
    [][(/\ last'.op \in {"leave_room", "disconnect"}
        /\ last'.op = "leave_room" => ~MissingOrEmpty(last'.room))
       => \A i \in SessionRows(user_sessions, last'.sid) :
             SessionRows(user_sessions', last'.sid) = {}
             => \E e \in 1..Len(emitted') :
                   /\ emitted'[e].name = "user_left"
                   /\ emitted'[e].room = user_sessions[i].room]_vars

(* C19 as stated: every user_left{username: u, room: R} is emitted by a   *)
(* handler whose connection held the session (u, R) just before it ran    *)
(* and holds it no more.                                                  *)
C19_UserLeftOnlyForClosedSession ==
    [][\A e \in Events("user_left")' :
          /\ \E i \in SessionRows(user_sessions, last'.sid) :
                /\ user_sessions[i].room = emitted'[e].room
                /\ user_sessions[i].username = emitted'[e].username
          /\ SessionRows(user_sessions', last'.sid) = {}]_vars

(* C20 as stated: in every reachable state, also after the process has    *)
(* stopped and started again on its chat.db, every stored session is      *)
(* that of a connection that is connected, and so is every entry of a     *)
(* room's occupant list.                                                  *)
C20_SessionsOfConnectedOnly ==
    \A i \in 1..Len(user_sessions) : user_sessions[i].session_id \in connected
====
